---- MODULE Spec2Model ----
(***************************************************************************)
(* Corner mobile client: the conversation screen (conversation.tsx), the   *)
(* admin dashboard's analytics, and the notification badge                 *)
(* (admin-dashboard.tsx), modelled as state machines over the external     *)
(* document store.                                                         *)
(*                                                                         *)
(* Every handler is cut at its awaits: the synchronous code up to an await *)
(* is one action (it issues the store call), the store's answer is one     *)
(* action (it applies the call and records the outcome), and the code      *)
(* after the await is one action.                                          *)
(***************************************************************************)
EXTENDS Integers, Sequences, FiniteSets, TLC

(***************************************************************************)
(* Bounds of the model.                                                    *)
(***************************************************************************)
MaxCalls == 3      \* store writes issued by the conversation screen

(***************************************************************************)
(* Identities and text.                                                    *)
(***************************************************************************)
NoUser == "none"
Null == "null"
Me == "u1"
Users == {"u1", "u2", "u3"}

\* The texts typed into an input: empty, whitespace only, and padded.
Texts == {<<>>, <<" ">>, <<" ", "a">>}

\* String.prototype.trim: leading and trailing white space removed.
RECURSIVE TrimLeft(_)
TrimLeft(s) == IF s # <<>> /\ Head(s) = " " THEN TrimLeft(Tail(s)) ELSE s

RECURSIVE TrimRight(_)
TrimRight(s) ==
    IF s # <<>> /\ s[Len(s)] = " " THEN TrimRight(SubSeq(s, 1, Len(s) - 1)) ELSE s

TrimIdentity(s) == s

Trim(s) == TrimRight(TrimLeft(s))

\* An empty or whitespace-only text, said without trim().
IsBlank(s) == \A i \in 1..Len(s) : s[i] = " "

(***************************************************************************)
(* State.                                                                  *)
(***************************************************************************)
VARIABLES
    \* ---- the external store and the session
    store,            \* the messages collection: a set of documents
    created,          \* documents the store has created so far (ids 1..created)
    userDoc,          \* users/<uid>: the profile document, or Null
    authUser,         \* auth().currentUser: a uid, or NoUser
    calls,            \* the writes the conversation screen issued, in order
    clock,            \* the device clock (new Date()), one tick per reading
    \* ---- ConversationScreen, conversation.tsx:25-44
    otherUserId, messages, newMessage, loading, sending, userData,
    editingMessage, editText, showEditModal, showActionSheet,
    selectedMessage, alertConfig,
    \* ---- the asynchronous handlers' positions
    loadOp,           \* loadUserAndMessages / loadMessages
    staleOp,          \* the invocation a change of otherUserId superseded
    sendOp,           \* handleSendMessage
    editOp,           \* handleSaveEdit
    deleteOp,         \* the confirm dialog's Delete onPress
    sent,             \* messages appended locally (numbers the temporary ids)
    \* ---- NotificationBadge, admin-dashboard.tsx:627-723
    notificationData, \* users/<uid>.notificationData in the store
    unreadCount, hasNewNotifications,
    listening,        \* the onSnapshot listener is attached
    snapshots,        \* profile snapshots on their way to the listener
    pressOp,          \* handlePress
    badgeClock,       \* the clock the notification times are read from
    \* ---- AdminDashboardScreen, admin-dashboard.tsx:36-166
    adminUser,        \* auth().currentUser of the dashboard
    adminProfile,     \* users/<uid> of the dashboard's user
    feedbackStore, surveyStore,    \* the two collections, newest first
    feedback, surveys, analytics, isLoading, refreshing,
    accessOp,         \* checkAdminAccess
    dataLoads,        \* the loadData calls in flight
    loadsStarted,     \* loadData calls made so far
    adminAlerts,      \* the title of the last Alert.alert, "" before the first
    lastEvent         \* the step the conversation screen or the badge took last

storeVars == <<store, created, userDoc, authUser, calls, clock>>
screenVars == <<otherUserId, messages, newMessage, loading, sending, userData,
                editingMessage, editText, showEditModal, showActionSheet,
                selectedMessage, alertConfig>>
opVars == <<loadOp, staleOp, sendOp, editOp, deleteOp, sent>>
convVars == <<storeVars, screenVars, opVars>>

badgeVars == <<notificationData, unreadCount, hasNewNotifications, listening,
               snapshots, pressOp, badgeClock>>
adminVars == <<adminUser, adminProfile, feedbackStore, surveyStore, feedback, surveys,
               analytics, isLoading, refreshing, accessOp, dataLoads, loadsStarted,
               adminAlerts>>

vars == <<convVars, badgeVars, adminVars, lastEvent>>

(***************************************************************************)
(* The messages collection.                                                *)
(***************************************************************************)
\* interface Message, conversation.tsx:11-22 (the display names and editedAt
\* are carried with the record and never read by the logic).
Message(id, senderId, receiverId, content, timestamp, read, edited) ==
    [id |-> id, senderId |-> senderId, receiverId |-> receiverId,
     content |-> content, timestamp |-> timestamp, read |-> read,
     edited |-> edited]

\* Store ids are 1, 2, ...; Date.now().toString() temporary ids are -1, -2, ...
\* A local id reconciled with the id the store assigns to the n-th message sent
\* from this screen (two documents exist before the first).
StoreAssignedId(n) == n + 2

TempId(n) == 0 - n

DocBefore(d, e) ==
    \/ d.timestamp < e.timestamp
    \/ d.timestamp = e.timestamp /\ d.id <= e.id

\* orderBy('timestamp', 'asc'): ties are resolved by document id.
RECURSIVE OrderByTimestamp(_)
OrderByTimestamp(S) ==
    IF S = {} THEN <<>>
    ELSE LET first == CHOOSE d \in S : \A e \in S : DocBefore(d, e)
         IN <<first>> \o OrderByTimestamp(S \ {first})

\* The query of loadMessages: senderId and receiverId each in [userId, otherUserId].
QueryMatches(d, userId, other) ==
    /\ d.senderId \in {userId, other}
    /\ d.receiverId \in {userId, other}

MessagesQuery(userId, other) ==
    OrderByTimestamp({d \in store : QueryMatches(d, userId, other)})

(***************************************************************************)
(* loadUserAndMessages and loadMessages, conversation.tsx:50-122.          *)
(***************************************************************************)
IdleLoad == [pc |-> "done", userId |-> NoUser, other |-> NoUser,
             snap |-> <<>>, i |-> 1, list |-> <<>>, resp |-> Null, mark |-> 0]

\* conversation.tsx:84-85: only messages between these two users.
InPairSenderOnly(d, userId, other) ==
    d.senderId \in {userId, other}

InPair(d, userId, other) ==
    \/ d.senderId = userId /\ d.receiverId = other
    \/ d.senderId = other /\ d.receiverId = userId

\* conversation.tsx:101: a received message that is not yet read.
NeedsMarkReadNever(d, userId) == FALSE

\* A test that forgets the receiver and marks every unread message.
NeedsMarkReadAny(d, userId) == ~d.read

NeedsMarkRead(d, userId) == d.receiverId = userId /\ ~d.read

\* The for loop of loadMessages from position i up to its next await (the
\* mark-as-read update of the document just pushed) or to its end (mark = 0).
RECURSIVE LoopRun(_, _, _, _, _)
LoopRun(snap, i, list, userId, other) ==
    IF i > Len(snap) THEN [i |-> i, list |-> list, mark |-> 0]
    ELSE LET d == snap[i]
             pushed == Append(list, Message(d.id, d.senderId, d.receiverId,
                                            d.content, d.timestamp, d.read, d.edited))
         IN IF InPair(d, userId, other)
            THEN IF NeedsMarkRead(d, userId)
                 THEN [i |-> i + 1, list |-> pushed, mark |-> d.id]
                 ELSE LoopRun(snap, i + 1, pushed, userId, other)
            ELSE LoopRun(snap, i + 1, list, userId, other)

\* The absent message (null), and the fields a write carries.
NoMessage == Message(0, NoUser, NoUser, <<>>, 0, FALSE, FALSE)

\* A write issued to the messages collection: add(data), doc(id).update(data),
\* doc(id).delete().
WriteCall(op, id, data) == [op |-> op, id |-> id, data |-> data]

\* useEffect -> loadUserAndMessages up to the profile read (lines 46-55).
LoadStart ==
    /\ loadOp.pc = "start"
    /\ IF authUser = NoUser
       THEN /\ loading' = FALSE
            /\ loadOp' = IdleLoad
       ELSE /\ loadOp' = [loadOp EXCEPT !.pc = "getUser", !.userId = authUser,
                                        !.other = otherUserId]
            /\ UNCHANGED loading
    /\ lastEvent' = "loadUserAndMessages"
    /\ UNCHANGED <<badgeVars, adminVars>>
    /\ UNCHANGED <<storeVars, otherUserId, messages, newMessage, sending, userData,
                   editingMessage, editText, showEditModal, showActionSheet,
                   selectedMessage, alertConfig, sendOp, editOp, deleteOp, sent, staleOp>>

\* The store answers users/<uid>.get(): the document, or a failure.
StoreGetUser ==
    /\ loadOp.pc = "getUser"
    /\ \E ok \in BOOLEAN :
         loadOp' = [loadOp EXCEPT !.pc = "gotUser",
                                  !.resp = IF ok THEN userDoc ELSE "error"]
    /\ lastEvent' = "store.getUser"
    /\ UNCHANGED <<badgeVars, adminVars>>
    /\ UNCHANGED <<storeVars, screenVars, sendOp, editOp, deleteOp, sent, staleOp>>

\* Lines 56-60 and 69-76: setUserData when the profile exists, then the query is
\* issued; a failed profile read goes to catch and finally (lines 61-65).
LoadGotUser ==
    /\ loadOp.pc = "gotUser"
    /\ IF loadOp.resp = "error"
       THEN /\ loading' = FALSE
            /\ loadOp' = IdleLoad
            /\ UNCHANGED userData
       ELSE /\ userData' = IF loadOp.resp # Null THEN loadOp.resp ELSE userData
            /\ loadOp' = [loadOp EXCEPT !.pc = "query", !.resp = Null]
            /\ UNCHANGED loading
    /\ lastEvent' = "loadMessages"
    /\ UNCHANGED <<badgeVars, adminVars>>
    /\ UNCHANGED <<storeVars, otherUserId, messages, newMessage, sending,
                   editingMessage, editText, showEditModal, showActionSheet,
                   selectedMessage, alertConfig, sendOp, editOp, deleteOp, sent, staleOp>>

\* The store answers the messages query with a snapshot, or fails.
StoreQuery ==
    /\ loadOp.pc = "query"
    /\ \E ok \in BOOLEAN :
         loadOp' = IF ok
                   THEN [loadOp EXCEPT !.pc = "loop", !.i = 1, !.list = <<>>,
                             !.snap = MessagesQuery(loadOp.userId, loadOp.other)]
                   ELSE [loadOp EXCEPT !.pc = "queryFailed"]
    /\ lastEvent' = "store.query"
    /\ UNCHANGED <<badgeVars, adminVars>>
    /\ UNCHANGED <<storeVars, screenVars, sendOp, editOp, deleteOp, sent, staleOp>>

\* Lines 78-113 between two awaits: the loop runs to its next mark-as-read
\* update (issued here) or to setMessages, after which loadUserAndMessages'
\* finally clears loading.
LoadRun ==
    /\ loadOp.pc = "loop"
    /\ LET r == LoopRun(loadOp.snap, loadOp.i, loadOp.list, loadOp.userId, loadOp.other)
       IN IF r.mark # 0
          THEN /\ loadOp' = [loadOp EXCEPT !.pc = "marking", !.i = r.i, !.list = r.list,
                                           !.mark = r.mark]
               /\ calls' = Append(calls, WriteCall("markRead", r.mark, [NoMessage EXCEPT !.read = TRUE]))
               /\ UNCHANGED <<messages, loading>>
          ELSE /\ messages' = r.list
               /\ loading' = FALSE
               /\ loadOp' = IdleLoad
               /\ UNCHANGED calls
    /\ lastEvent' = "loadMessages.loop"
    /\ UNCHANGED <<badgeVars, adminVars>>
    /\ UNCHANGED <<store, created, userDoc, authUser, clock, otherUserId, newMessage,
                   sending, userData, editingMessage, editText, showEditModal,
                   showActionSheet, selectedMessage, alertConfig, sendOp, editOp,
                   deleteOp, sent, staleOp>>

\* A catch without the finally that clears loading.
LoadQueryFailedStuck ==
    /\ loadOp.pc = "queryFailed"
    /\ loadOp' = IdleLoad
    /\ lastEvent' = "loadMessages.catch"
    /\ UNCHANGED <<badgeVars, adminVars>>
    /\ UNCHANGED <<storeVars, otherUserId, messages, newMessage, loading, sending,
                   userData, editingMessage, editText, showEditModal, showActionSheet,
                   selectedMessage, alertConfig, sendOp, editOp, deleteOp, sent, staleOp>>

\* Lines 119-121 and 63-65: a failed query is logged; loading is cleared.
LoadQueryFailed ==
    /\ loadOp.pc = "queryFailed"
    /\ loading' = FALSE
    /\ loadOp' = IdleLoad
    /\ lastEvent' = "loadMessages.catch"
    /\ UNCHANGED <<badgeVars, adminVars>>
    /\ UNCHANGED <<storeVars, otherUserId, messages, newMessage, sending, userData,
                   editingMessage, editText, showEditModal, showActionSheet,
                   selectedMessage, alertConfig, sendOp, editOp, deleteOp, sent, staleOp>>

\* doc(id).update(fields): fails when the document does not exist.
StoreUpdated(id, fields) ==
    {IF d.id = id
     THEN [f \in DOMAIN d |-> IF f \in DOMAIN fields THEN fields[f] ELSE d[f]]
     ELSE d : d \in store}

DocExists(id) == \E d \in store : d.id = id

\* The store answers the mark-as-read update (lines 103-108): applied, or failed
\* and logged; the loop goes on either way.
StoreMarkRead ==
    /\ loadOp.pc = "marking"
    /\ \E ok \in BOOLEAN :
         store' = IF ok /\ DocExists(loadOp.mark)
                  THEN StoreUpdated(loadOp.mark, [read |-> TRUE])
                  ELSE store
    /\ loadOp' = [loadOp EXCEPT !.pc = "loop", !.mark = 0]
    /\ lastEvent' = "store.markRead"
    /\ UNCHANGED <<badgeVars, adminVars>>
    /\ UNCHANGED <<created, userDoc, authUser, calls, clock, screenVars,
                   sendOp, editOp, deleteOp, sent, staleOp>>

(***************************************************************************)
(* A change of the otherUserId route parameter re-runs the effect of lines *)
(* 46-48 while the invocation it supersedes may still be pending: nothing  *)
(* cancels it. The superseded invocation keeps the userId and otherUserId  *)
(* of the render that started it and takes the same steps as the current   *)
(* one.                                                                    *)
(***************************************************************************)
ChangeOtherUser(u) ==
    /\ u # otherUserId
    /\ loadOp.pc # "start"
    /\ staleOp.pc = "done"
    /\ otherUserId' = u
    /\ staleOp' = loadOp
    /\ loadOp' = [IdleLoad EXCEPT !.pc = "start"]
    /\ lastEvent' = "useEffect"
    /\ UNCHANGED <<badgeVars, adminVars>>
    /\ UNCHANGED <<storeVars, messages, newMessage, loading, sending, userData,
                   editingMessage, editText, showEditModal, showActionSheet,
                   selectedMessage, alertConfig, sendOp, editOp, deleteOp, sent>>

\* StoreGetUser, taken by the superseded invocation.
StaleStoreGetUser ==
    /\ staleOp.pc = "getUser"
    /\ \E ok \in BOOLEAN :
         staleOp' = [staleOp EXCEPT !.pc = "gotUser",
                                  !.resp = IF ok THEN userDoc ELSE "error"]
    /\ lastEvent' = "store.getUser"
    /\ UNCHANGED <<badgeVars, adminVars>>
    /\ UNCHANGED <<storeVars, screenVars, sendOp, editOp, deleteOp, sent, loadOp>>

\* LoadGotUser, taken by the superseded invocation.
StaleLoadGotUser ==
    /\ staleOp.pc = "gotUser"
    /\ IF staleOp.resp = "error"
       THEN /\ loading' = FALSE
            /\ staleOp' = IdleLoad
            /\ UNCHANGED userData
       ELSE /\ userData' = IF staleOp.resp # Null THEN staleOp.resp ELSE userData
            /\ staleOp' = [staleOp EXCEPT !.pc = "query", !.resp = Null]
            /\ UNCHANGED loading
    /\ lastEvent' = "loadMessages"
    /\ UNCHANGED <<badgeVars, adminVars>>
    /\ UNCHANGED <<storeVars, otherUserId, messages, newMessage, sending,
                   editingMessage, editText, showEditModal, showActionSheet,
                   selectedMessage, alertConfig, sendOp, editOp, deleteOp, sent, loadOp>>

\* StoreQuery, taken by the superseded invocation.
StaleStoreQuery ==
    /\ staleOp.pc = "query"
    /\ \E ok \in BOOLEAN :
         staleOp' = IF ok
                   THEN [staleOp EXCEPT !.pc = "loop", !.i = 1, !.list = <<>>,
                             !.snap = MessagesQuery(staleOp.userId, staleOp.other)]
                   ELSE [staleOp EXCEPT !.pc = "queryFailed"]
    /\ lastEvent' = "store.query"
    /\ UNCHANGED <<badgeVars, adminVars>>
    /\ UNCHANGED <<storeVars, screenVars, sendOp, editOp, deleteOp, sent, loadOp>>

\* LoadRun, taken by the superseded invocation.
StaleLoadRun ==
    /\ staleOp.pc = "loop"
    /\ LET r == LoopRun(staleOp.snap, staleOp.i, staleOp.list, staleOp.userId, staleOp.other)
       IN IF r.mark # 0
          THEN /\ staleOp' = [staleOp EXCEPT !.pc = "marking", !.i = r.i, !.list = r.list,
                                           !.mark = r.mark]
               /\ calls' = Append(calls, WriteCall("markRead", r.mark, [NoMessage EXCEPT !.read = TRUE]))
               /\ UNCHANGED <<messages, loading>>
          ELSE /\ messages' = r.list
               /\ loading' = FALSE
               /\ staleOp' = IdleLoad
               /\ UNCHANGED calls
    /\ lastEvent' = "loadMessages.loop"
    /\ UNCHANGED <<badgeVars, adminVars>>
    /\ UNCHANGED <<store, created, userDoc, authUser, clock, otherUserId, newMessage,
                   sending, userData, editingMessage, editText, showEditModal,
                   showActionSheet, selectedMessage, alertConfig, sendOp, editOp,
                   deleteOp, sent, loadOp>>

\* LoadQueryFailed, taken by the superseded invocation.
StaleLoadQueryFailed ==
    /\ staleOp.pc = "queryFailed"
    /\ loading' = FALSE
    /\ staleOp' = IdleLoad
    /\ lastEvent' = "loadMessages.catch"
    /\ UNCHANGED <<badgeVars, adminVars>>
    /\ UNCHANGED <<storeVars, otherUserId, messages, newMessage, sending, userData,
                   editingMessage, editText, showEditModal, showActionSheet,
                   selectedMessage, alertConfig, sendOp, editOp, deleteOp, sent, loadOp>>

\* StoreMarkRead, taken by the superseded invocation.
StaleStoreMarkRead ==
    /\ staleOp.pc = "marking"
    /\ \E ok \in BOOLEAN :
         store' = IF ok /\ DocExists(staleOp.mark)
                  THEN StoreUpdated(staleOp.mark, [read |-> TRUE])
                  ELSE store
    /\ staleOp' = [staleOp EXCEPT !.pc = "loop", !.mark = 0]
    /\ lastEvent' = "store.markRead"
    /\ UNCHANGED <<badgeVars, adminVars>>
    /\ UNCHANGED <<created, userDoc, authUser, calls, clock, screenVars,
                   sendOp, editOp, deleteOp, sent, loadOp>>

\* Lines 101-105 run on another user's device: their load marks a message
\* they received as read.
PeerMarkRead ==
    /\ \E u \in Users \ {authUser}, o \in Users, d \in store :
         /\ InPair(d, u, o)
         /\ NeedsMarkRead(d, u)
         /\ store' = StoreUpdated(d.id, [read |-> TRUE])
    /\ lastEvent' = "peer.markRead"
    /\ UNCHANGED <<badgeVars, adminVars>>
    /\ UNCHANGED <<created, userDoc, authUser, calls, clock, screenVars, opVars>>

(***************************************************************************)
(* What is on screen (conversation.tsx:286-497): the spinner replaces the  *)
(* whole screen while loading; the alert, the edit modal and the action    *)
(* sheet overlay each cover what lies below them.                          *)
(***************************************************************************)
NoAlert == [visible |-> FALSE, type |-> "none", target |-> NoMessage]
ConfirmAlert(m) == [visible |-> TRUE, type |-> "confirm", target |-> m]
ErrorAlert == [visible |-> TRUE, type |-> "error", target |-> NoMessage]

AlertVisible == ~loading /\ alertConfig.visible
ModalVisible == ~loading /\ showEditModal /\ ~alertConfig.visible
SheetVisible ==
    /\ ~loading /\ showActionSheet /\ selectedMessage # NoMessage
    /\ ~showEditModal /\ ~alertConfig.visible
ListVisible ==
    /\ ~loading /\ ~(showActionSheet /\ selectedMessage # NoMessage)
    /\ ~showEditModal /\ ~alertConfig.visible

IdleOp == [pc |-> "idle", id |-> 0, data |-> NoMessage]

(***************************************************************************)
(* Sending, conversation.tsx:124-175 and 392-416.                          *)
(***************************************************************************)
\* onChangeText={setNewMessage}
ChangeNewMessage(t) ==
    /\ ListVisible
    /\ newMessage' = t
    /\ lastEvent' = "setNewMessage"
    /\ UNCHANGED <<badgeVars, adminVars>>
    /\ UNCHANGED <<storeVars, otherUserId, messages, loading, sending, userData,
                   editingMessage, editText, showEditModal, showActionSheet,
                   selectedMessage, alertConfig, opVars>>

\* A send button that stays enabled while a send is pending.
SendDisabledIgnoringSending == Trim(newMessage) = <<>>

\* Line 408: disabled={!newMessage.trim() || sending}
SendDisabled == Trim(newMessage) = <<>> \/ sending

\* Line 125: if (!newMessage.trim() || !userData) return;
SendRejected == Trim(newMessage) = <<>> \/ userData = Null

\* Lines 132-140: the record handed to add().
MessageDataUntrimmed ==
    Message(0, authUser, otherUserId, newMessage, clock + 1, FALSE, FALSE)

MessageData ==
    Message(0, authUser, otherUserId, Trim(newMessage), clock + 1, FALSE, FALSE)

\* A send that shows its copy before the store has answered.
SendIssueOptimistic ==
    IF authUser = NoUser
    THEN UNCHANGED <<convVars>>
    ELSE /\ Len(calls) < MaxCalls
         /\ clock' = clock + 1
         /\ sendOp' = [pc |-> "adding", id |-> 0, data |-> MessageData]
         /\ calls' = Append(calls, WriteCall("add", 0, MessageData))
         /\ messages' = Append(messages, [MessageData EXCEPT !.id = TempId(sent + 1)])
         /\ sending' = TRUE
         /\ UNCHANGED <<store, created, userDoc, authUser, otherUserId,
                        newMessage, loading, userData, editingMessage, editText,
                        showEditModal, showActionSheet, selectedMessage, alertConfig,
                        loadOp, staleOp, editOp, deleteOp, sent>>

\* Lines 128-142: setSending(true), the record is built and add() is issued. With
\* no current user the handler returns through finally (lines 130 and 173).
SendIssue ==
    IF authUser = NoUser
    THEN UNCHANGED <<convVars>>
    ELSE /\ Len(calls) < MaxCalls
         /\ clock' = clock + 1
         /\ sendOp' = [pc |-> "adding", id |-> 0, data |-> MessageData]
         /\ calls' = Append(calls, WriteCall("add", 0, MessageData))
         /\ sending' = TRUE
         /\ UNCHANGED <<store, created, userDoc, authUser, otherUserId, messages,
                        newMessage, loading, userData, editingMessage, editText,
                        showEditModal, showActionSheet, selectedMessage, alertConfig,
                        loadOp, staleOp, editOp, deleteOp, sent>>

handleSendMessage ==
    IF SendRejected THEN UNCHANGED <<convVars>> ELSE SendIssue

\* A press of the send button: nothing happens while the button is disabled.
PressSend ==
    /\ ListVisible
    /\ lastEvent' = "handleSendMessage"
    /\ UNCHANGED <<badgeVars, adminVars>>
    /\ IF SendDisabled THEN UNCHANGED <<convVars>> ELSE handleSendMessage

\* The store answers add(): the document is created under a fresh id, or the
\* write fails.
StoreAdd ==
    /\ sendOp.pc = "adding"
    /\ \E ok \in BOOLEAN :
         IF ok
         THEN /\ store' = store \cup {[sendOp.data EXCEPT !.id = created + 1]}
              /\ created' = created + 1
              /\ sendOp' = [sendOp EXCEPT !.pc = "added", !.id = created + 1]
         ELSE /\ sendOp' = [sendOp EXCEPT !.pc = "failed"]
              /\ UNCHANGED <<store, created>>
    /\ lastEvent' = "store.add"
    /\ UNCHANGED <<badgeVars, adminVars>>
    /\ UNCHANGED <<userDoc, authUser, calls, clock, screenVars, loadOp, staleOp, editOp,
                   deleteOp, sent>>

\* Lines 144-151 and 172-174: the local copy under a temporary id is appended and
\* the draft cleared.
SendAppended ==
    /\ sendOp.pc = "added"
    /\ messages' = Append(messages, [sendOp.data EXCEPT !.id = TempId(sent + 1)])
    /\ sent' = sent + 1
    /\ newMessage' = <<>>
    /\ sending' = FALSE
    /\ sendOp' = IdleOp
    /\ lastEvent' = "handleSendMessage.then"
    /\ UNCHANGED <<badgeVars, adminVars>>
    /\ UNCHANGED <<storeVars, otherUserId, loading, userData, editingMessage, editText,
                   showEditModal, showActionSheet, selectedMessage, alertConfig,
                   loadOp, staleOp, editOp, deleteOp>>

\* A catch that only logs.
SendFailedSilently ==
    /\ sendOp.pc = "failed"
    /\ sending' = FALSE
    /\ sendOp' = IdleOp
    /\ lastEvent' = "handleSendMessage.catch"
    /\ UNCHANGED <<badgeVars, adminVars>>
    /\ UNCHANGED <<storeVars, otherUserId, messages, newMessage, loading, userData,
                   editingMessage, editText, showEditModal, showActionSheet,
                   selectedMessage, alertConfig, loadOp, staleOp, editOp, deleteOp, sent>>

\* Lines 157-174: the failure alert.
SendFailed ==
    /\ sendOp.pc = "failed"
    /\ alertConfig' = ErrorAlert
    /\ sending' = FALSE
    /\ sendOp' = IdleOp
    /\ lastEvent' = "handleSendMessage.catch"
    /\ UNCHANGED <<badgeVars, adminVars>>
    /\ UNCHANGED <<storeVars, otherUserId, messages, newMessage, loading, userData,
                   editingMessage, editText, showEditModal, showActionSheet,
                   selectedMessage, loadOp, staleOp, editOp, deleteOp, sent>>

(***************************************************************************)
(* The action sheet, conversation.tsx:187-202 and 345-449.                 *)
(***************************************************************************)
\* Line 189: if (!currentUser || message.senderId !== currentUser.uid) return;
LongPressRejectedNever(m) == FALSE

LongPressRejected(m) == authUser = NoUser \/ m.senderId # authUser

\* onLongPress of a listed message (lines 345-356).
handleLongPress(i) ==
    /\ ListVisible
    /\ i \in 1..Len(messages)
    /\ IF LongPressRejected(messages[i])
       THEN UNCHANGED <<selectedMessage, showActionSheet>>
       ELSE /\ selectedMessage' = messages[i]
            /\ showActionSheet' = TRUE
    /\ lastEvent' = "handleLongPress"
    /\ UNCHANGED <<badgeVars, adminVars>>
    /\ UNCHANGED <<storeVars, otherUserId, messages, newMessage, loading, sending,
                   userData, editingMessage, editText, showEditModal, alertConfig,
                   opVars>>

\* Lines 195-202.
handleEditMessage ==
    /\ SheetVisible
    /\ editingMessage' = selectedMessage
    /\ editText' = selectedMessage.content
    /\ showEditModal' = TRUE
    /\ showActionSheet' = FALSE
    /\ lastEvent' = "handleEditMessage"
    /\ UNCHANGED <<badgeVars, adminVars>>
    /\ UNCHANGED <<storeVars, otherUserId, messages, newMessage, loading, sending,
                   userData, selectedMessage, alertConfig, opVars>>

\* A Delete menu action that deletes without asking.
handleDeleteMessageUnconfirmed ==
    /\ SheetVisible
    /\ deleteOp.pc = "idle"
    /\ Len(calls) < MaxCalls
    /\ deleteOp' = [pc |-> "deleting", id |-> selectedMessage.id, data |-> NoMessage]
    /\ calls' = Append(calls, WriteCall("delete", selectedMessage.id, NoMessage))
    /\ lastEvent' = "handleDeleteMessage"
    /\ UNCHANGED <<badgeVars, adminVars>>
    /\ UNCHANGED <<store, created, userDoc, authUser, clock, screenVars, loadOp, staleOp,
                   sendOp, editOp, sent>>

\* Lines 204-247: the confirm dialog; its Delete action captures selectedMessage.
handleDeleteMessage ==
    /\ SheetVisible
    /\ alertConfig' = ConfirmAlert(selectedMessage)
    /\ lastEvent' = "handleDeleteMessage"
    /\ UNCHANGED <<badgeVars, adminVars>>
    /\ UNCHANGED <<storeVars, otherUserId, messages, newMessage, loading, sending,
                   userData, editingMessage, editText, showEditModal, showActionSheet,
                   selectedMessage, opVars>>

\* Lines 424 and 443: the sheet's background and its Cancel button.
CloseActionSheet ==
    /\ SheetVisible
    /\ showActionSheet' = FALSE
    /\ lastEvent' = "closeActionSheet"
    /\ UNCHANGED <<badgeVars, adminVars>>
    /\ UNCHANGED <<storeVars, otherUserId, messages, newMessage, loading, sending,
                   userData, editingMessage, editText, showEditModal,
                   selectedMessage, alertConfig, opVars>>

(***************************************************************************)
(* The alert, conversation.tsx:213-244 and 490-497.                        *)
(***************************************************************************)
\* Cancel of the confirm dialog, OK of an error alert, and onDismiss.
AlertClose(button) ==
    /\ AlertVisible
    /\ \/ button = "Cancel" /\ alertConfig.type = "confirm"
       \/ button = "OK" /\ alertConfig.type = "error"
       \/ button = "dismiss"
    /\ alertConfig' = NoAlert
    /\ lastEvent' = button
    /\ UNCHANGED <<badgeVars, adminVars>>
    /\ UNCHANGED <<storeVars, otherUserId, messages, newMessage, loading, sending,
                   userData, editingMessage, editText, showEditModal, showActionSheet,
                   selectedMessage, opVars>>

\* Lines 220-222: Delete of the confirm dialog issues doc(id).delete().
ConfirmDelete ==
    /\ AlertVisible
    /\ alertConfig.type = "confirm"
    /\ deleteOp.pc = "idle"
    /\ Len(calls) < MaxCalls
    /\ deleteOp' = [pc |-> "deleting", id |-> alertConfig.target.id, data |-> NoMessage]
    /\ calls' = Append(calls, WriteCall("delete", alertConfig.target.id, NoMessage))
    /\ lastEvent' = "Delete"
    /\ UNCHANGED <<badgeVars, adminVars>>
    /\ UNCHANGED <<store, created, userDoc, authUser, clock, screenVars, loadOp, staleOp,
                   sendOp, editOp, sent>>

\* The store answers delete(): the document is removed (deleting an absent
\* document succeeds), or the write fails.
StoreDelete ==
    /\ deleteOp.pc = "deleting"
    /\ \E ok \in BOOLEAN :
         IF ok
         THEN /\ store' = {d \in store : d.id # deleteOp.id}
              /\ deleteOp' = [deleteOp EXCEPT !.pc = "deleted"]
         ELSE /\ deleteOp' = [deleteOp EXCEPT !.pc = "failed"]
              /\ UNCHANGED store
    /\ lastEvent' = "store.delete"
    /\ UNCHANGED <<badgeVars, adminVars>>
    /\ UNCHANGED <<created, userDoc, authUser, calls, clock, screenVars, loadOp, staleOp,
                   sendOp, editOp, sent>>

\* Lines 223-225.
DeleteDone ==
    /\ deleteOp.pc = "deleted"
    /\ showActionSheet' = FALSE
    /\ selectedMessage' = NoMessage
    /\ alertConfig' = NoAlert
    /\ deleteOp' = IdleOp
    /\ lastEvent' = "Delete.then"
    /\ UNCHANGED <<badgeVars, adminVars>>
    /\ UNCHANGED <<storeVars, otherUserId, messages, newMessage, loading, sending,
                   userData, editingMessage, editText, showEditModal, loadOp, staleOp,
                   sendOp, editOp, sent>>

\* Lines 226-241.
DeleteFailed ==
    /\ deleteOp.pc = "failed"
    /\ alertConfig' = ErrorAlert
    /\ deleteOp' = IdleOp
    /\ lastEvent' = "Delete.catch"
    /\ UNCHANGED <<badgeVars, adminVars>>
    /\ UNCHANGED <<storeVars, otherUserId, messages, newMessage, loading, sending,
                   userData, editingMessage, editText, showEditModal, showActionSheet,
                   selectedMessage, loadOp, staleOp, sendOp, editOp, sent>>

(***************************************************************************)
(* The edit modal, conversation.tsx:249-284 and 451-488.                   *)
(***************************************************************************)
\* onChangeText={setEditText}
ChangeEditText(t) ==
    /\ ModalVisible
    /\ editText' = t
    /\ lastEvent' = "setEditText"
    /\ UNCHANGED <<badgeVars, adminVars>>
    /\ UNCHANGED <<storeVars, otherUserId, messages, newMessage, loading, sending,
                   userData, editingMessage, showEditModal, showActionSheet,
                   selectedMessage, alertConfig, opVars>>

\* Line 481: disabled={!editText.trim()}
SaveDisabled == Trim(editText) = <<>>

\* Line 250: if (!editingMessage || !editText.trim()) return;
SaveRejected == editingMessage = NoMessage \/ Trim(editText) = <<>>

\* Lines 252-257: doc(editingMessage.id).update({content, edited, editedAt}).
handleSaveEdit ==
    IF SaveRejected
    THEN UNCHANGED <<convVars>>
    ELSE /\ Len(calls) < MaxCalls
         /\ editOp.pc = "idle"
         /\ LET fields == [NoMessage EXCEPT !.content = Trim(editText), !.edited = TRUE]
            IN /\ editOp' = [pc |-> "updating", id |-> editingMessage.id, data |-> fields]
               /\ calls' = Append(calls, WriteCall("update", editingMessage.id, fields))
         /\ UNCHANGED <<store, created, userDoc, authUser, clock, screenVars, loadOp, staleOp,
                        sendOp, deleteOp, sent>>

\* A press of Save: nothing happens while the button is disabled.
PressSave ==
    /\ ModalVisible
    /\ lastEvent' = "handleSaveEdit"
    /\ UNCHANGED <<badgeVars, adminVars>>
    /\ IF SaveDisabled THEN UNCHANGED <<convVars>> ELSE handleSaveEdit

\* An update that also writes the message back as unread.
EditFieldsUnread(content) == [content |-> content, edited |-> TRUE, read |-> FALSE]

\* Lines 253-257: the fields handleSaveEdit updates.
EditFields(content) == [content |-> content, edited |-> TRUE]

\* The store answers update(): applied to an existing document, or failed (the
\* document does not exist, or the write is lost).
StoreUpdate ==
    /\ editOp.pc = "updating"
    /\ \E ok \in BOOLEAN :
         IF ok /\ DocExists(editOp.id)
         THEN /\ store' = StoreUpdated(editOp.id, EditFields(editOp.data.content))
              /\ editOp' = [editOp EXCEPT !.pc = "updated"]
         ELSE /\ editOp' = [editOp EXCEPT !.pc = "failed"]
              /\ UNCHANGED store
    /\ lastEvent' = "store.update"
    /\ UNCHANGED <<badgeVars, adminVars>>
    /\ UNCHANGED <<created, userDoc, authUser, calls, clock, screenVars, loadOp, staleOp,
                   sendOp, deleteOp, sent>>

\* Lines 259-261.
SaveDone ==
    /\ editOp.pc = "updated"
    /\ showEditModal' = FALSE
    /\ editingMessage' = NoMessage
    /\ editText' = <<>>
    /\ editOp' = IdleOp
    /\ lastEvent' = "handleSaveEdit.then"
    /\ UNCHANGED <<badgeVars, adminVars>>
    /\ UNCHANGED <<storeVars, otherUserId, messages, newMessage, loading, sending,
                   userData, showActionSheet, selectedMessage, alertConfig, loadOp, staleOp,
                   sendOp, deleteOp, sent>>

\* Lines 262-277.
SaveFailed ==
    /\ editOp.pc = "failed"
    /\ alertConfig' = ErrorAlert
    /\ editOp' = IdleOp
    /\ lastEvent' = "handleSaveEdit.catch"
    /\ UNCHANGED <<badgeVars, adminVars>>
    /\ UNCHANGED <<storeVars, otherUserId, messages, newMessage, loading, sending,
                   userData, editingMessage, editText, showEditModal, showActionSheet,
                   selectedMessage, loadOp, staleOp, sendOp, deleteOp, sent>>

\* Lines 280-284.
handleCancelEdit ==
    /\ ModalVisible
    /\ showEditModal' = FALSE
    /\ editingMessage' = NoMessage
    /\ editText' = <<>>
    /\ lastEvent' = "handleCancelEdit"
    /\ UNCHANGED <<badgeVars, adminVars>>
    /\ UNCHANGED <<storeVars, otherUserId, messages, newMessage, loading, sending,
                   userData, showActionSheet, selectedMessage, alertConfig, opVars>>

(***************************************************************************)
(* NotificationBadge, admin-dashboard.tsx:627-723.                         *)
(***************************************************************************)
MaxBadgeClock == 3     \* notifications and presses in one run
MaxSnapshots == 2      \* snapshots on their way to the listener

\* users/<uid>: exists, and its notificationData fields (0: the field is absent).
NotificationDoc(exists, unread, lastNotificationTime, lastSeenTime) ==
    [exists |-> exists, unreadCount |-> unread,
     lastNotificationTime |-> lastNotificationTime, lastSeenTime |-> lastSeenTime]

IdlePress == [pc |-> "idle", seenAt |-> 0]

\* A store change reaches an attached listener as a snapshot.
Published(doc) == IF listening = "on" THEN Append(snapshots, doc) ELSE snapshots

\* Lines 641-646: the effect subscribes when a user is signed in; the listener's
\* first snapshot is the current document.
BadgeMount ==
    /\ listening = "init"
    /\ IF authUser = NoUser
       THEN /\ listening' = "none"
            /\ UNCHANGED snapshots
       ELSE /\ listening' = "on"
            /\ snapshots' = <<notificationData>>
    /\ lastEvent' = "badge.useEffect"
    /\ UNCHANGED <<notificationData, unreadCount, hasNewNotifications, pressOp,
                   badgeClock, convVars, adminVars>>

\* A cleanup that leaves the listener attached.
BadgeUnmountLeaky ==
    /\ listening = "on"
    /\ lastEvent # "badge.unsubscribe"
    /\ lastEvent' = "badge.unsubscribe"
    /\ UNCHANGED <<notificationData, unreadCount, hasNewNotifications, listening,
                   snapshots, pressOp, badgeClock, convVars, adminVars>>

\* Line 672: the cleanup unsubscribes; undelivered snapshots are dropped.
BadgeUnmount ==
    /\ listening = "on"
    /\ listening' = "off"
    /\ snapshots' = <<>>
    /\ lastEvent' = "badge.unsubscribe"
    /\ UNCHANGED <<notificationData, unreadCount, hasNewNotifications, pressOp,
                   badgeClock, convVars, adminVars>>

\* Another part of the system delivers a notification: it stamps
\* lastNotificationTime, increments the counter, or both.
Notify(stamps, counts) ==
    /\ stamps \/ counts
    /\ notificationData.exists
    /\ badgeClock < MaxBadgeClock
    /\ Len(snapshots) < MaxSnapshots
    /\ badgeClock' = badgeClock + 1
    /\ notificationData' =
         [notificationData EXCEPT
            !.unreadCount = IF counts THEN @ + 1 ELSE @,
            !.lastNotificationTime = IF stamps THEN badgeClock + 1 ELSE @]
    /\ snapshots' = Published(notificationData')
    /\ lastEvent' = "notify"
    /\ UNCHANGED <<unreadCount, hasNewNotifications, listening, pressOp,
                   convVars, adminVars>>

\* Lines 657-664 of the listener.
HasNewAlways(doc) == TRUE

HasNew(doc) ==
    IF doc.lastNotificationTime # 0 /\ doc.lastSeenTime # 0
    THEN doc.lastNotificationTime > doc.lastSeenTime
    ELSE doc.unreadCount > 0

\* Lines 647-666: the listener's callback.
OnSnapshot ==
    /\ listening = "on"
    /\ snapshots # <<>>
    /\ LET doc == Head(snapshots)
       IN IF doc.exists
          THEN /\ unreadCount' = doc.unreadCount
               /\ hasNewNotifications' = HasNew(doc)
          ELSE UNCHANGED <<unreadCount, hasNewNotifications>>
    /\ snapshots' = Tail(snapshots)
    /\ lastEvent' = "onSnapshot"
    /\ UNCHANGED <<notificationData, listening, pressOp, badgeClock,
                   convVars, adminVars>>

\* Lines 675-690: navigation, then the update of lastSeenTime and unreadCount is
\* issued when a user is signed in.
handlePress ==
    /\ listening \in {"on", "none"}
    /\ pressOp.pc = "idle"
    /\ badgeClock < MaxBadgeClock
    /\ IF authUser = NoUser
       THEN UNCHANGED <<pressOp, badgeClock>>
       ELSE /\ badgeClock' = badgeClock + 1
            /\ pressOp' = [pc |-> "updating", seenAt |-> badgeClock + 1]
    /\ lastEvent' = "handlePress"
    /\ UNCHANGED <<notificationData, unreadCount, hasNewNotifications, listening,
                   snapshots, convVars, adminVars>>

\* A seen write that takes one off the counter instead of clearing it.
SeenFieldsDecrement(doc, seenAt) ==
    [doc EXCEPT !.lastSeenTime = seenAt, !.unreadCount = @ - 1]

\* Lines 687-690: the fields the update writes.
SeenFields(doc, seenAt) ==
    [doc EXCEPT !.lastSeenTime = seenAt, !.unreadCount = 0]

\* The store answers the update: applied to an existing profile, or failed.
StoreSeen ==
    /\ pressOp.pc = "updating"
    /\ Len(snapshots) < MaxSnapshots
    /\ \E ok \in BOOLEAN :
         IF ok /\ notificationData.exists
         THEN /\ notificationData' = SeenFields(notificationData, pressOp.seenAt)
              /\ snapshots' = Published(notificationData')
              /\ pressOp' = [pressOp EXCEPT !.pc = "updated"]
         ELSE /\ pressOp' = [pressOp EXCEPT !.pc = "failed"]
              /\ UNCHANGED <<notificationData, snapshots>>
    /\ lastEvent' = "store.seen"
    /\ UNCHANGED <<unreadCount, hasNewNotifications, listening, badgeClock,
                   convVars, adminVars>>

\* Line 691: setHasNewNotifications(false) once the update has succeeded (a state
\* update of an unmounted component is dropped).
PressDone ==
    /\ pressOp.pc = "updated"
    /\ hasNewNotifications' = IF listening = "off" THEN hasNewNotifications ELSE FALSE
    /\ pressOp' = IdlePress
    /\ lastEvent' = "handlePress.then"
    /\ UNCHANGED <<notificationData, unreadCount, listening, snapshots, badgeClock,
                   convVars, adminVars>>

\* Lines 692-694: the failure is logged.
PressFailed ==
    /\ pressOp.pc = "failed"
    /\ pressOp' = IdlePress
    /\ lastEvent' = "handlePress.catch"
    /\ UNCHANGED <<notificationData, unreadCount, hasNewNotifications, listening,
                   snapshots, badgeClock, convVars, adminVars>>

\* Lines 708 and 717: what the badge shows.
ShowsCount == unreadCount > 0
ShowsDotUnguarded == hasNewNotifications
ShowsDot == hasNewNotifications /\ unreadCount = 0

BadgeIdle ==
    /\ unreadCount = 0
    /\ hasNewNotifications = FALSE
    /\ listening = "init"
    /\ snapshots = <<>>
    /\ pressOp = IdlePress
    /\ badgeClock = 0

(***************************************************************************)
(* AdminDashboardScreen, admin-dashboard.tsx:36-166.                       *)
(***************************************************************************)
MaxSample == 6         \* feedback records of a sample
MaxRecords == 1        \* records in a collection of the store
MaxLoads == 2          \* loadData calls in one run

FetchLimit == 50
Ratings == 1..5

\* The records as the analytics read them: a rating; a survey's 'features'
\* answer (empty when absent) and its 'satisfaction' answer ("" when absent).
Feedback(rating) == [rating |-> rating]
Survey(features, satisfaction) == [features |-> features, satisfaction |-> satisfaction]

\* orderBy('createdAt', 'desc').limit(50) over a collection kept newest first.
Newest(collection) ==
    SubSeq(collection, 1, IF Len(collection) < FetchLimit THEN Len(collection) ELSE FetchLimit)

\* Lines 124-130: the loop over feedback.
RECURSIVE RatingLoop(_)
RatingLoop(fb) ==
    IF fb = <<>> THEN [ratingDistribution |-> [r \in Ratings |-> 0], totalRating |-> 0]
    ELSE LET before == RatingLoop(SubSeq(fb, 1, Len(fb) - 1))
             f == fb[Len(fb)]
         IN [ratingDistribution |->
                 [before.ratingDistribution EXCEPT ![f.rating] = @ + 1],
             totalRating |-> before.totalRating + f.rating]

\* An entry that records that a key was mentioned, not how often.
BumpOnce(usage, key) ==
    [k \in DOMAIN usage \cup {key} |-> IF k = key THEN 1 ELSE usage[k]]

\* featureUsage[feature] = (featureUsage[feature] || 0) + 1
Bump(usage, key) ==
    [k \in DOMAIN usage \cup {key} |->
        IF k = key THEN (IF key \in DOMAIN usage THEN usage[key] ELSE 0) + 1
        ELSE usage[k]]

RECURSIVE BumpAll(_, _)
BumpAll(usage, keys) ==
    IF keys = <<>> THEN usage ELSE BumpAll(Bump(usage, Head(keys)), Tail(keys))

\* Lines 133-141: the loop over the surveys' features.
RECURSIVE FeatureLoop(_)
FeatureLoop(sv) ==
    IF sv = <<>> THEN [k \in {} |-> 0]
    ELSE BumpAll(FeatureLoop(SubSeq(sv, 1, Len(sv) - 1)), sv[Len(sv)].features)

\* Lines 144-150: the loop over the surveys' satisfaction.
RECURSIVE SatisfactionLoop(_)
SatisfactionLoop(sv) ==
    IF sv = <<>> THEN [k \in {} |-> 0]
    ELSE LET before == SatisfactionLoop(SubSeq(sv, 1, Len(sv) - 1))
             satisfaction == sv[Len(sv)].satisfaction
         IN IF satisfaction # "" THEN Bump(before, satisfaction) ELSE before

\* A quotient num/den, kept exact.
Quotient(num, den) == [num |-> num, den |-> den]

\* Line 155: feedback.length > 0 ? totalRating / feedback.length : 0
AverageUnguarded(totalRating, count) == Quotient(totalRating, count)

Average(totalRating, count) ==
    IF count > 0 THEN Quotient(totalRating, count) ELSE Quotient(0, 1)

RatingLoopOffByOne(fb) ==
    IF fb = <<>> THEN RatingLoop(fb) ELSE RatingLoop(Tail(fb))

RatingSummary(fb) == RatingLoop(fb)

\* Lines 122-160: calculateAnalytics over the feedback and surveys it sees.
calculateAnalytics(fb, sv) ==
    [computed |-> TRUE,
     totalFeedback |-> Len(fb),
     totalSurveys |-> Len(sv),
     averageRating |-> Average(RatingSummary(fb).totalRating, Len(fb)),
     ratingDistribution |-> RatingSummary(fb).ratingDistribution,
     featureUsage |-> FeatureLoop(sv),
     satisfactionDistribution |-> SatisfactionLoop(sv)]

\* useState<Analytics | null>(null)
NoAnalytics ==
    [computed |-> FALSE, totalFeedback |-> 0, totalSurveys |-> 0,
     averageRating |-> Quotient(0, 1),
     ratingDistribution |-> [r \in Ratings |-> 0],
     featureUsage |-> [k \in {} |-> 0],
     satisfactionDistribution |-> [k \in {} |-> 0]]

AdminEmail == "corner.e.learning@gmail.com"
NoAdmin == [signedIn |-> FALSE, email |-> ""]
AdminProfile(exists, role, isSuperAdmin) ==
    [exists |-> exists, role |-> role, isSuperAdmin |-> isSuperAdmin]

\* Lines 51-53 and 67-69: Alert.alert, then router.back().
AccessDenied ==
    /\ adminAlerts' = "Access Denied"
    /\ accessOp' = "denied"

\* The screen is on the navigation stack until router.back().
OnDashboard == accessOp # "denied"

\* A loadData call: the feedback and surveys of the render it was made from,
\* and its two fetches.
DataLoad(id, fb, sv, refresh) ==
    [id |-> id, feedback |-> fb, surveys |-> sv, refresh |-> refresh,
     fetchFeedback |-> "pending", fetchSurveys |-> "pending", pc |-> "awaiting"]

\* Lines 75-81 (and 163 for a refresh): setIsLoading(true) and both fetches are
\* issued; calculateAnalytics of this call reads the state of the render the
\* call was made from.
loadData(seenFeedback, seenSurveys, refresh) ==
    /\ loadsStarted < MaxLoads
    /\ loadsStarted' = loadsStarted + 1
    /\ dataLoads' = dataLoads \cup
           {DataLoad(loadsStarted + 1, seenFeedback, seenSurveys, refresh)}
    /\ isLoading' = TRUE

\* Lines 48-57: useEffect -> checkAdminAccess up to the profile read.
AccessStart ==
    /\ accessOp = "start"
    /\ IF ~adminUser.signedIn
       THEN AccessDenied
       ELSE /\ accessOp' = "getUser"
            /\ UNCHANGED adminAlerts
    /\ UNCHANGED <<lastEvent, adminUser, adminProfile, feedbackStore, surveyStore, feedback,
                   surveys, analytics, isLoading, refreshing, dataLoads, loadsStarted,
                   convVars, badgeVars>>

\* The store answers the profile read; a failure rejects checkAdminAccess, which
\* nothing catches.
StoreGetAdmin ==
    /\ accessOp = "getUser"
    /\ \E ok \in BOOLEAN : accessOp' = IF ok THEN "gotUser" ELSE "rejected"
    /\ UNCHANGED <<lastEvent, adminUser, adminProfile, feedbackStore, surveyStore, feedback,
                   surveys, analytics, isLoading, refreshing, dataLoads, loadsStarted,
                   adminAlerts, convVars, badgeVars>>

\* Lines 58-63.
IsSuperAdmin ==
    /\ adminProfile.exists
    /\ adminProfile.role = "superadmin" \/ adminProfile.isSuperAdmin

\* Lines 65-72: the fallback e-mail, then loadData() of the first render, whose
\* feedback and surveys are the initial empty lists (lines 37-38).
AccessDecide ==
    /\ accessOp = "gotUser"
    /\ IF ~IsSuperAdmin /\ adminUser.email # AdminEmail
       THEN /\ AccessDenied
            /\ UNCHANGED <<dataLoads, loadsStarted, isLoading>>
       ELSE /\ accessOp' = "granted"
            /\ loadData(<<>>, <<>>, FALSE)
            /\ UNCHANGED adminAlerts
    /\ UNCHANGED <<lastEvent, adminUser, adminProfile, feedbackStore, surveyStore, feedback,
                   surveys, analytics, refreshing, convVars, badgeVars>>

\* Lines 162-164: the header's refresh button and the pull to refresh, bound to
\* the current render. The mount effect has run before the first press is
\* handled.
onRefresh ==
    /\ OnDashboard
    /\ accessOp # "start"
    /\ refreshing' = TRUE
    /\ loadData(feedback, surveys, TRUE)
    /\ UNCHANGED <<lastEvent, adminUser, adminProfile, feedbackStore, surveyStore, feedback,
                   surveys, analytics, accessOp, adminAlerts, convVars, badgeVars>>

\* A call in flight after a step of it: dropped when it has returned and no
\* fetch of it is pending.
Resolved(l, after) ==
    IF after.pc = "returned" /\ after.fetchFeedback # "pending"
                            /\ after.fetchSurveys # "pending"
    THEN dataLoads \ {l}
    ELSE (dataLoads \ {l}) \cup {after}

\* Lines 92-105: the store answers the feedback query and setFeedback runs, or
\* the query fails.
FeedbackFetched(l) ==
    /\ l \in dataLoads
    /\ l.fetchFeedback = "pending"
    /\ \E ok \in BOOLEAN :
         /\ dataLoads' = Resolved(l, [l EXCEPT !.fetchFeedback =
                                                 IF ok THEN "done" ELSE "failed"])
         /\ feedback' = IF ok THEN Newest(feedbackStore) ELSE feedback
    /\ UNCHANGED <<lastEvent, adminUser, adminProfile, feedbackStore, surveyStore, surveys,
                   analytics, isLoading, refreshing, accessOp, loadsStarted,
                   adminAlerts, convVars, badgeVars>>

\* Lines 107-120.
SurveysFetched(l) ==
    /\ l \in dataLoads
    /\ l.fetchSurveys = "pending"
    /\ \E ok \in BOOLEAN :
         /\ dataLoads' = Resolved(l, [l EXCEPT !.fetchSurveys =
                                                 IF ok THEN "done" ELSE "failed"])
         /\ surveys' = IF ok THEN Newest(surveyStore) ELSE surveys
    /\ UNCHANGED <<lastEvent, adminUser, adminProfile, feedbackStore, surveyStore, feedback,
                   analytics, isLoading, refreshing, accessOp, loadsStarted,
                   adminAlerts, convVars, badgeVars>>

\* loadData has returned: the call is forgotten once none of its fetches is
\* pending.
Settled(l) == Resolved(l, [l EXCEPT !.pc = "returned"])

\* Lines 82-83 and 87-89 (165 for a refresh): both fetches have resolved.
LoadDataThen(l) ==
    /\ l \in dataLoads
    /\ l.pc = "awaiting"
    /\ l.fetchFeedback = "done" /\ l.fetchSurveys = "done"
    /\ analytics' = calculateAnalytics(l.feedback, l.surveys)
    /\ isLoading' = FALSE
    /\ refreshing' = IF l.refresh THEN FALSE ELSE refreshing
    /\ dataLoads' = Settled(l)
    /\ UNCHANGED <<lastEvent, adminUser, adminProfile, feedbackStore, surveyStore, feedback,
                   surveys, accessOp, loadsStarted, adminAlerts, convVars, badgeVars>>

\* Lines 84-89: Promise.all rejects with the first fetch that fails.
LoadDataCatch(l) ==
    /\ l \in dataLoads
    /\ l.pc = "awaiting"
    /\ l.fetchFeedback = "failed" \/ l.fetchSurveys = "failed"
    /\ adminAlerts' = "Error"
    /\ isLoading' = FALSE
    /\ refreshing' = IF l.refresh THEN FALSE ELSE refreshing
    /\ dataLoads' = Settled(l)
    /\ UNCHANGED <<lastEvent, adminUser, adminProfile, feedbackStore, surveyStore, feedback,
                   surveys, analytics, accessOp, loadsStarted, convVars, badgeVars>>

\* Users of the app submit feedback to the collection the dashboard reads.
SubmitFeedback(rating) ==
    /\ Len(feedbackStore) < MaxRecords
    /\ feedbackStore' = <<Feedback(rating)>> \o feedbackStore
    /\ UNCHANGED <<lastEvent, adminUser, adminProfile, surveyStore, feedback, surveys, analytics,
                   isLoading, refreshing, accessOp, dataLoads, loadsStarted,
                   adminAlerts, convVars, badgeVars>>

AdminIdle ==
    /\ feedback = <<>>
    /\ surveys = <<>>
    /\ analytics = NoAnalytics
    /\ isLoading = TRUE
    /\ refreshing = FALSE
    /\ accessOp = "start"
    /\ dataLoads = {}
    /\ loadsStarted = 0
    /\ adminAlerts = ""

(***************************************************************************)
(* The conversation screen's specification.                                *)
(***************************************************************************)
\* The store when the screen is opened: one message of each direction.
SeedStore ==
    {Message(1, Me, "u2", <<"b">>, 1, FALSE, FALSE),
     Message(2, "u2", Me, <<"b">>, 1, FALSE, FALSE)}

ScreenInit ==
    /\ otherUserId = "u2"
    /\ messages = <<>>
    /\ newMessage = <<>>
    /\ loading = TRUE
    /\ sending = FALSE
    /\ userData = Null
    /\ editingMessage = NoMessage
    /\ editText = <<>>
    /\ showEditModal = FALSE
    /\ showActionSheet = FALSE
    /\ selectedMessage = NoMessage
    /\ alertConfig = NoAlert
    /\ loadOp = [IdleLoad EXCEPT !.pc = "start"]
    /\ staleOp = IdleLoad
    /\ sendOp = IdleOp
    /\ editOp = IdleOp
    /\ deleteOp = IdleOp
    /\ sent = 0
    /\ calls = <<>>
    /\ lastEvent = "mount"

\* No conversation screen is open.
ConversationIdle ==
    /\ otherUserId = "u2"
    /\ messages = <<>>
    /\ newMessage = <<>>
    /\ loading = TRUE
    /\ sending = FALSE
    /\ userData = Null
    /\ editingMessage = NoMessage
    /\ editText = <<>>
    /\ showEditModal = FALSE
    /\ showActionSheet = FALSE
    /\ selectedMessage = NoMessage
    /\ alertConfig = NoAlert
    /\ loadOp = IdleLoad
    /\ staleOp = IdleLoad
    /\ sendOp = IdleOp
    /\ editOp = IdleOp
    /\ deleteOp = IdleOp
    /\ sent = 0
    /\ calls = <<>>
    /\ store = {}
    /\ created = 0
    /\ userDoc = Null
    /\ clock = 1

Init ==
    /\ ScreenInit
    /\ store = SeedStore
    /\ created = 2
    /\ userDoc \in {Null, "profile"}
    /\ authUser \in {Me, NoUser}
    /\ clock = 1
    /\ BadgeIdle
    /\ notificationData = NotificationDoc(FALSE, 0, 0, 0)
    /\ AdminIdle
    /\ adminUser = NoAdmin
    /\ adminProfile = AdminProfile(FALSE, "", FALSE)
    /\ feedbackStore = <<>>
    /\ surveyStore = <<>>
    /\ lastEvent = "mount"

Next ==
    \/ LoadStart
    \/ StoreGetUser
    \/ LoadGotUser
    \/ StoreQuery
    \/ LoadRun
    \/ LoadQueryFailed
    \/ StoreMarkRead
    \/ \E t \in Texts : ChangeNewMessage(t)
    \/ PressSend
    \/ StoreAdd
    \/ SendAppended
    \/ SendFailed
    \/ \E i \in 1..Len(messages) : handleLongPress(i)
    \/ handleEditMessage
    \/ handleDeleteMessage
    \/ CloseActionSheet
    \/ \E b \in {"Cancel", "OK", "dismiss"} : AlertClose(b)
    \/ ConfirmDelete
    \/ StoreDelete
    \/ DeleteDone
    \/ DeleteFailed
    \/ \E t \in Texts : ChangeEditText(t)
    \/ PressSave
    \/ StoreUpdate
    \/ SaveDone
    \/ SaveFailed
    \/ handleCancelEdit

Spec == Init /\ [][Next]_vars

\* Every pending store call is answered, with a result or a failure, and a
\* handler whose awaited call has been answered resumes.
Fairness ==
    /\ WF_vars(LoadStart) /\ WF_vars(StoreGetUser) /\ WF_vars(LoadGotUser)
    /\ WF_vars(StoreQuery) /\ WF_vars(LoadRun) /\ WF_vars(LoadQueryFailed)
    /\ WF_vars(StoreMarkRead)
    /\ WF_vars(StoreAdd) /\ WF_vars(SendAppended) /\ WF_vars(SendFailed)

FairSpec == Spec /\ Fairness

(***************************************************************************)
(* A session in which the conversation partner changes once, the device's  *)
(* clock is behind the other party's, and the other parties read what they *)
(* receive.                                                                *)
(***************************************************************************)
SessionStore ==
    {Message(1, Me, "u2", <<"b">>, 1, TRUE, FALSE),
     Message(2, "u2", Me, <<"b">>, 2, FALSE, FALSE),
     Message(3, "u3", Me, <<"b">>, 1, FALSE, FALSE)}

\* The partners the route parameter takes, in order.
Itinerary == <<"u2", "u3">>

SessionInit ==
    /\ ScreenInit
    /\ store = SessionStore
    /\ created = Cardinality(SessionStore)
    /\ userDoc = "profile"
    /\ authUser = Me
    /\ clock = 0
    /\ BadgeIdle
    /\ notificationData = NotificationDoc(FALSE, 0, 0, 0)
    /\ AdminIdle
    /\ adminUser = NoAdmin
    /\ adminProfile = AdminProfile(FALSE, "", FALSE)
    /\ feedbackStore = <<>>
    /\ surveyStore = <<>>

\* The draft typed in the session.
SessionTexts == {<<" ", "a">>}

SessionNext ==
    \/ LoadStart
    \/ StoreGetUser
    \/ LoadGotUser
    \/ StoreQuery
    \/ LoadRun
    \/ LoadQueryFailed
    \/ StoreMarkRead
    \/ \E k \in 1..(Len(Itinerary) - 1) :
         otherUserId = Itinerary[k] /\ ChangeOtherUser(Itinerary[k + 1])
    \/ StaleStoreGetUser
    \/ StaleLoadGotUser
    \/ StaleStoreQuery
    \/ StaleLoadRun
    \/ StaleLoadQueryFailed
    \/ StaleStoreMarkRead
    \/ PeerMarkRead
    \/ \E t \in SessionTexts : ChangeNewMessage(t)
    \/ PressSend
    \/ StoreAdd
    \/ SendAppended
    \/ SendFailed
    \/ \E b \in {"Cancel", "OK", "dismiss"} : AlertClose(b)
    \/ \E i \in 1..Len(messages) : handleLongPress(i)
    \/ handleEditMessage
    \/ handleDeleteMessage
    \/ ConfirmDelete
    \/ StoreDelete
    \/ DeleteDone
    \/ DeleteFailed
    \/ \E t \in SessionTexts : ChangeEditText(t)
    \/ PressSave
    \/ StoreUpdate
    \/ SaveDone
    \/ SaveFailed

SessionSpec == SessionInit /\ [][SessionNext]_vars

(***************************************************************************)
(* The notification badge's specification.                                 *)
(***************************************************************************)
BadgeInit ==
    /\ ConversationIdle
    /\ AdminIdle
    /\ adminUser = NoAdmin
    /\ adminProfile = AdminProfile(FALSE, "", FALSE)
    /\ feedbackStore = <<>>
    /\ surveyStore = <<>>
    /\ authUser \in {Me, NoUser}
    /\ unreadCount = 0
    /\ hasNewNotifications = FALSE
    /\ listening = "init"
    /\ snapshots = <<>>
    /\ pressOp = IdlePress
    /\ badgeClock = 1
    /\ \E exists \in BOOLEAN, unread \in 0..1, notified \in 0..1, seen \in 0..1 :
         notificationData = NotificationDoc(exists, unread, notified, seen)
    /\ lastEvent = "mount"

BadgeNext ==
    \/ BadgeMount
    \/ BadgeUnmount
    \/ \E stamps \in BOOLEAN, counts \in BOOLEAN : Notify(stamps, counts)
    \/ OnSnapshot
    \/ handlePress
    \/ StoreSeen
    \/ PressDone
    \/ PressFailed

BadgeSpec == BadgeInit /\ [][BadgeNext]_vars

(***************************************************************************)
(* The admin dashboard's specification.                                    *)
(***************************************************************************)
SubmittedRatings == {4}
SubmittedSurveys == {Survey(<<"chat">>, "high")}

\* Who opens the dashboard: nobody; a superadmin by role, by flag, or by the
\* fallback e-mail alone; a teacher with and without a profile.
AdminSessions ==
    LET teacher == [signedIn |-> TRUE, email |-> "teacher@example.com"]
    IN {<<NoAdmin, AdminProfile(FALSE, "", FALSE)>>,
        <<teacher, AdminProfile(TRUE, "superadmin", FALSE)>>,
        <<teacher, AdminProfile(TRUE, "teacher", TRUE)>>,
        <<[signedIn |-> TRUE, email |-> AdminEmail], AdminProfile(FALSE, "", FALSE)>>,
        <<teacher, AdminProfile(TRUE, "teacher", FALSE)>>,
        <<teacher, AdminProfile(FALSE, "", FALSE)>>}

AdminInit ==
    /\ ConversationIdle
    /\ authUser = NoUser
    /\ BadgeIdle
    /\ notificationData = NotificationDoc(FALSE, 0, 0, 0)
    /\ AdminIdle
    /\ \E session \in AdminSessions :
         /\ adminUser = session[1]
         /\ adminProfile = session[2]
    /\ feedbackStore = <<>>
    /\ surveyStore \in {<<sv>> : sv \in SubmittedSurveys}
    /\ lastEvent = "mount"

AdminNext ==
    \/ AccessStart
    \/ StoreGetAdmin
    \/ AccessDecide
    \/ onRefresh
    \/ \E l \in dataLoads : FeedbackFetched(l)
    \/ \E l \in dataLoads : SurveysFetched(l)
    \/ \E l \in dataLoads : LoadDataThen(l)
    \/ \E l \in dataLoads : LoadDataCatch(l)
    \/ \E r \in SubmittedRatings : SubmitFeedback(r)

AdminSpec == AdminInit /\ [][AdminNext]_vars

\* The mount effect runs, every store read is answered, and a call whose
\* awaited reads have been answered resumes.
AdminFairness ==
    /\ WF_vars(AccessStart) /\ WF_vars(StoreGetAdmin) /\ WF_vars(AccessDecide)
    /\ WF_vars(\E l \in dataLoads : FeedbackFetched(l))
    /\ WF_vars(\E l \in dataLoads : SurveysFetched(l))
    /\ WF_vars(\E l \in dataLoads : LoadDataThen(l))
    /\ WF_vars(\E l \in dataLoads : LoadDataCatch(l))

AdminFairSpec == AdminSpec /\ AdminFairness

(***************************************************************************)
(* calculateAnalytics over every sample of at most MaxSample ratings.      *)
(***************************************************************************)
\* A render runs calculateAnalytics over its feedback and surveys.
Recalculate ==
    /\ analytics' = calculateAnalytics(feedback, surveys)
    /\ lastEvent' = "calculateAnalytics"
    /\ UNCHANGED <<adminUser, adminProfile, feedbackStore, surveyStore, feedback,
                   surveys, isLoading, refreshing, accessOp, dataLoads, loadsStarted,
                   adminAlerts, convVars, badgeVars>>

AnalyticsInit ==
    /\ ConversationIdle
    /\ authUser = NoUser
    /\ BadgeIdle
    /\ notificationData = NotificationDoc(FALSE, 0, 0, 0)
    /\ adminUser = NoAdmin
    /\ adminProfile = AdminProfile(FALSE, "", FALSE)
    /\ feedbackStore = <<>>
    /\ surveyStore = <<>>
    /\ \E n \in 0..MaxSample : \E ratings \in [1..n -> Ratings] :
         feedback = [i \in 1..n |-> Feedback(ratings[i])]
    /\ surveys \in {<<>>, <<Survey(<<"chat", "quiz">>, "high"), Survey(<<"chat">>, "")>>}
    /\ analytics = NoAnalytics
    /\ isLoading = FALSE
    /\ refreshing = FALSE
    /\ accessOp = "granted"
    /\ dataLoads = {}
    /\ loadsStarted = 0
    /\ adminAlerts = ""
    /\ lastEvent = "render"

AnalyticsNext == Recalculate

AnalyticsSpec == AnalyticsInit /\ [][AnalyticsNext]_vars

(***************************************************************************)
(* calculateAnalytics over every sample of at most MaxSurveys surveys.     *)
(***************************************************************************)
MaxSurveys == 3        \* surveys of a sample

\* The 'features' answers of a survey: absent or empty, one feature, two
\* features, the same feature twice.
FeatureAnswers ==
    {<<>>, <<"chat">>, <<"quiz">>, <<"chat", "quiz">>, <<"chat", "chat">>}

SurveyInit ==
    /\ ConversationIdle
    /\ authUser = NoUser
    /\ BadgeIdle
    /\ notificationData = NotificationDoc(FALSE, 0, 0, 0)
    /\ adminUser = NoAdmin
    /\ adminProfile = AdminProfile(FALSE, "", FALSE)
    /\ feedbackStore = <<>>
    /\ surveyStore = <<>>
    /\ feedback = <<>>
    /\ \E n \in 0..MaxSurveys : \E answers \in [1..n -> FeatureAnswers] :
         surveys = [i \in 1..n |-> Survey(answers[i], "")]
    /\ analytics = NoAnalytics
    /\ isLoading = FALSE
    /\ refreshing = FALSE
    /\ accessOp = "granted"
    /\ dataLoads = {}
    /\ loadsStarted = 0
    /\ adminAlerts = ""
    /\ lastEvent = "render"

SurveyNext == Recalculate

SurveySpec == SurveyInit /\ [][SurveyNext]_vars

(***************************************************************************)
(* loadMessages over every small messages collection.                      *)
(***************************************************************************)
MaxStored == 2         \* documents in the collection when the screen opens
MaxStamp == 2          \* largest timestamp of a stored document

LoadInit ==
    /\ ScreenInit
    /\ \E n \in 0..MaxStored :
         \E senders \in [1..n -> Users], receivers \in [1..n -> Users],
            stamps \in [1..n -> 1..MaxStamp], reads \in [1..n -> BOOLEAN] :
              /\ store = {Message(i, senders[i], receivers[i], <<"b">>, stamps[i],
                                  reads[i], FALSE) : i \in 1..n}
              /\ created = n
    /\ userDoc = "profile"
    /\ authUser = Me
    /\ clock = MaxStamp
    /\ BadgeIdle
    /\ notificationData = NotificationDoc(FALSE, 0, 0, 0)
    /\ AdminIdle
    /\ adminUser = NoAdmin
    /\ adminProfile = AdminProfile(FALSE, "", FALSE)
    /\ feedbackStore = <<>>
    /\ surveyStore = <<>>

LoadNext ==
    \/ LoadStart
    \/ StoreGetUser
    \/ LoadGotUser
    \/ StoreQuery
    \/ LoadRun
    \/ LoadQueryFailed
    \/ StoreMarkRead

LoadSpec == LoadInit /\ [][LoadNext]_vars

(***************************************************************************)
(* Properties of the conversation screen.                                  *)
(***************************************************************************)
\* c is t without its leading and trailing white space.
IsTrimOf(c, t) ==
    \E i \in 1..(Len(t) + 1), j \in 0..Len(t) :
        /\ c = SubSeq(t, i, j)
        /\ \A k \in 1..(i - 1) : t[k] = " "
        /\ \A k \in (j + 1)..Len(t) : t[k] = " "
        /\ c # <<>> => c[1] # " " /\ c[Len(c)] # " "

AddCalls(log) == Cardinality({i \in 1..Len(log) : log[i].op = "add"})

\* C1 (as amended): a send of a text that is non-empty after trimming, with a
\* loaded profile and a signed-in user, issues exactly one create call, whose
\* content is the trimmed text and whose read flag is false; when that call
\* succeeds exactly one entry, the copy of the record, is appended at the end of
\* the local list; until then the list is as it was.
C1_SendCreatesAndAppendsOne ==
    [][/\ (lastEvent' = "handleSendMessage" /\ ~IsBlank(newMessage)
           /\ userData # Null /\ authUser # NoUser /\ ~sending) =>
              /\ sendOp'.pc = "adding"
              /\ Len(calls') = Len(calls) + 1
              /\ SubSeq(calls', 1, Len(calls)) = calls
              /\ LET create == calls'[Len(calls')]
                 IN /\ create.op = "add"
                    /\ IsTrimOf(create.data.content, newMessage)
                    /\ create.data.read = FALSE
                    /\ create.data.senderId = authUser
                    /\ create.data.receiverId = otherUserId
                    /\ sendOp'.data = create.data
              /\ messages' = messages
       /\ sendOp.pc # "idle" => AddCalls(calls') = AddCalls(calls)
       /\ (sendOp.pc = "added" /\ sendOp'.pc = "idle") =>
              /\ Len(messages') = Len(messages) + 1
              /\ SubSeq(messages', 1, Len(messages)) = messages
              /\ LET copy == messages'[Len(messages')]
                 IN [copy EXCEPT !.id = 0] = sendOp.data
       /\ (sendOp.pc = "failed" /\ sendOp'.pc = "idle") => messages' = messages
      ]_vars

\* C1 witness: a padded text has been sent and its trimmed copy is the last
\* entry of the list.
C1_Witness ==
    /\ lastEvent = "handleSendMessage.then"
    /\ Len(messages) = 3
    /\ messages[3].content = <<"a">>
    /\ messages[3].id = TempId(1)
    /\ AddCalls(calls) = 1

\* C1 as stated: every send that has issued its create call ends with exactly
\* one new entry appended to the list.
C1_Original ==
    [][(sendOp.pc \in {"added", "failed"} /\ sendOp'.pc = "idle") =>
           /\ Len(messages') = Len(messages) + 1
           /\ SubSeq(messages', 1, Len(messages)) = messages]_vars

\* C2: a press of send with an empty or whitespace-only draft or without a
\* profile, and a press of save with an empty or whitespace-only edit text,
\* change nothing: no write is issued and the store, the list, the draft, the
\* sending flag, the edit modal and the alert are as before.
C2_BlankIsNoOp ==
    [][((lastEvent' = "handleSendMessage" /\ (IsBlank(newMessage) \/ userData = Null))
        \/ (lastEvent' = "handleSaveEdit" /\ IsBlank(editText))) =>
           UNCHANGED <<storeVars, screenVars, opVars>>]_vars

\* C2 witness: send was pressed on a whitespace-only draft with the profile
\* loaded.
C2_Witness ==
    /\ lastEvent = "handleSendMessage"
    /\ newMessage = <<" ">>
    /\ userData # Null
    /\ sendOp.pc = "idle"

BetweenThePair(d) ==
    <<d.senderId, d.receiverId>> \in {<<authUser, otherUserId>>, <<otherUserId, authUser>>}

LoadCompleted == lastEvent = "loadMessages.loop" /\ loadOp.pc = "done"

C4_LoadListsThePair ==
    LoadCompleted =>
        /\ \A i \in 1..Len(messages) : BetweenThePair(messages[i])
        /\ \A d \in store : BetweenThePair(d) =>
               \E i \in 1..Len(messages) : messages[i].id = d.id
        /\ \A i, j \in 1..Len(messages) : i # j => messages[i].id # messages[j].id
        /\ \A i, j \in 1..Len(messages) :
               i < j => messages[i].timestamp <= messages[j].timestamp

\* C4 witness: a load has completed over a collection that holds a message of
\* the pair and one the query returns although it is not of the pair.
C4_Witness ==
    /\ LoadCompleted
    /\ Len(messages) = 1
    /\ \E d \in store : QueryMatches(d, authUser, otherUserId) /\ ~BetweenThePair(d)

\* C6 as stated: when a confirmed delete has succeeded at the store, the
\* message is no longer in the local list.
C6_DeleteRemovesLocally ==
    [][(deleteOp.pc = "deleted" /\ deleteOp'.pc = "idle") =>
           \A i \in 1..Len(messages') : messages'[i].id # deleteOp.id]_vars

\* C7 as stated: the confirm dialog never issues a delete for a stored message
\* that has already been deleted.
C7_NoRepeatedDelete ==
    [][(lastEvent' = "Delete" /\ alertConfig.target.id > 0) =>
           DocExists(alertConfig.target.id)]_vars

\* C10 (as amended): while the create call is in flight, and until the handler
\* resumes after its successful return, the list holds no copy of the message
\* being sent.
CopyListed ==
    \E i \in 1..Len(messages) :
        /\ messages[i].id < 0
        /\ [messages[i] EXCEPT !.id = 0] = sendOp.data

C5_SeenClearsLocally ==
    lastEvent = "handlePress.catch" =>
        unreadCount = 0 /\ hasNewNotifications = FALSE

(***************************************************************************)
(* Properties of the admin dashboard.                                      *)
(***************************************************************************)
RatingCount(fb, r) == Cardinality({i \in 1..Len(fb) : fb[i].rating = r})

RatingSum(fb) ==
    1 * RatingCount(fb, 1) + 2 * RatingCount(fb, 2) + 3 * RatingCount(fb, 3)
        + 4 * RatingCount(fb, 4) + 5 * RatingCount(fb, 5)

ExampleRatings == <<5, 5, 4, 3, 5, 1>>

ExampleFeedback == [i \in 1..Len(ExampleRatings) |-> Feedback(ExampleRatings[i])]

\* C8: the computed analytics count, for each rating 1..5, the feedback records
\* with that rating; averageRating is the sum of the ratings divided by the
\* number of records, and 0 when there are none. For the ratings
\* [5,5,4,3,5,1] the distribution is {1:1, 2:0, 3:1, 4:1, 5:3} and the
\* average 23/6.
C8_RatingSummary ==
    analytics.computed =>
        /\ DOMAIN analytics.ratingDistribution = 1..5
        /\ \A r \in 1..5 :
               analytics.ratingDistribution[r] = RatingCount(feedback, r)
        /\ analytics.averageRating.den # 0
        /\ IF feedback = <<>>
           THEN analytics.averageRating.num = 0
           ELSE analytics.averageRating.num * Len(feedback)
                    = RatingSum(feedback) * analytics.averageRating.den
        /\ feedback = ExampleFeedback =>
               /\ analytics.ratingDistribution
                      = (1 :> 1) @@ (2 :> 0) @@ (3 :> 1) @@ (4 :> 1) @@ (5 :> 3)
               /\ analytics.averageRating.num * 6 = 23 * analytics.averageRating.den

\* C8 witness: analytics have been computed over the ratings [5,5,4,3,5,1].
C8_Witness ==
    /\ analytics.computed
    /\ feedback = ExampleFeedback
    /\ analytics.totalFeedback = 6

\* C9 as stated: when every load that was started has completed without an
\* error, the analytics summarise the feedback and surveys those loads fetched.
C9_AnalyticsOfThisLoad ==
    (loadsStarted > 0 /\ dataLoads = {} /\ adminAlerts = "") =>
        /\ analytics.computed
        /\ analytics.totalFeedback = Len(feedback)
        /\ analytics.totalSurveys = Len(surveys)

CallsOf(log, op) == Cardinality({i \in 1..Len(log) : log[i].op = op})

FailureHandled(op, kind) ==
    /\ (op.pc = "failed" /\ op'.pc = "idle") =>
           /\ AlertVisible'
           /\ alertConfig'.type = "error"
           /\ calls' = calls
           /\ messages' = messages
    /\ (op.pc # "failed" /\ op'.pc = "failed") => messages' = messages
    /\ (op.pc # "idle") => CallsOf(calls', kind) = CallsOf(calls, kind)

C12_EditRefreshesList ==
    [][(editOp.pc = "updated" /\ editOp'.pc = "idle") =>
           \A i \in 1..Len(messages') :
               messages'[i].id = editOp.id =>
                   /\ messages'[i].content = editOp.data.content
                   /\ messages'[i].edited = TRUE]_vars

\* C13: a store delete is issued only by the Delete button of a visible confirm
\* dialog, for the message that dialog was opened for, which is the selected
\* message of the open action sheet and was sent by the signed-in user; the
\* dialog is opened only by the Delete menu action and a message is selected
\* only by a long press on it; Cancel issues no store call and leaves the list
\* and the store as they were.
C13_DeleteOnlyOwnConfirmed ==
    [][/\ CallsOf(calls', "delete") # CallsOf(calls, "delete") =>
              /\ lastEvent' = "Delete"
              /\ AlertVisible /\ alertConfig.type = "confirm"
              /\ calls' = Append(calls, WriteCall("delete", alertConfig.target.id, NoMessage))
              /\ authUser # NoUser
              /\ alertConfig.target.senderId = authUser
              /\ alertConfig.target = selectedMessage
              /\ showActionSheet
              /\ \E i \in 1..Len(messages) : messages[i] = alertConfig.target
       /\ (alertConfig'.type = "confirm" /\ alertConfig # alertConfig') =>
              /\ lastEvent' = "handleDeleteMessage"
              /\ SheetVisible
              /\ alertConfig'.target = selectedMessage
       /\ (selectedMessage' # NoMessage /\ selectedMessage' # selectedMessage) =>
              /\ lastEvent' = "handleLongPress"
              /\ selectedMessage'.senderId = authUser
              /\ \E i \in 1..Len(messages) : messages[i] = selectedMessage'
       /\ lastEvent' = "Cancel" =>
              /\ alertConfig.type = "confirm"
              /\ calls' = calls /\ messages' = messages /\ store' = store
              /\ deleteOp' = deleteOp
      ]_vars

\* C13 witness: the confirm dialog's Delete has issued the delete of an own
\* message.
C13_Witness ==
    /\ lastEvent = "Delete"
    /\ deleteOp.pc = "deleting"
    /\ calls[Len(calls)].op = "delete"
    /\ alertConfig.target.senderId = authUser

\* hasNew as the specification derives it from a profile document.
DerivedHasNew(doc) ==
    IF doc.lastNotificationTime # 0 /\ doc.lastSeenTime # 0
    THEN doc.lastNotificationTime > doc.lastSeenTime
    ELSE IF doc.lastSeenTime = 0 THEN doc.unreadCount > 0 ELSE FALSE

\* C14 as stated: on every snapshot of an existing profile the badge sets
\* unreadCount to the stored counter and hasNew to lastNotificationTime >
\* lastSeenTime when both are present, otherwise to unreadCount > 0 when
\* lastSeenTime is absent, otherwise to false.
C14_HasNewDerivation ==
    [][(lastEvent' = "onSnapshot" /\ snapshots # <<>> /\ Head(snapshots).exists) =>
           /\ unreadCount' = Head(snapshots).unreadCount
           /\ hasNewNotifications' = DerivedHasNew(Head(snapshots))]_vars

\* C15: in every state of the badge the numeric badge is shown exactly when
\* unreadCount > 0, the plain dot exactly when unreadCount = 0 and hasNew is
\* true, and the two are never shown together.
C15_BadgeOrDot ==
    /\ ShowsCount <=> unreadCount > 0
    /\ ShowsDot <=> (unreadCount = 0 /\ hasNewNotifications)
    /\ ~(ShowsCount /\ ShowsDot)

\* C15 witness: a snapshot has left a positive count with hasNew true; the
\* numeric badge is shown and the dot is not.
C15_Witness ==
    /\ lastEvent = "onSnapshot"
    /\ unreadCount > 0 /\ hasNewNotifications
    /\ ShowsCount /\ ~ShowsDot

MarkReadCalls(id) ==
    Cardinality({k \in 1..Len(calls) : calls[k].op = "markRead" /\ calls[k].id = id})

\* C16: when a load has completed, every stored message of the pair is in the
\* list, whether or not its mark-as-read write succeeded; for every listed
\* message that was fetched unread and is addressed to the signed-in user
\* exactly one mark-as-read write, carrying read = true, has been issued; and
\* loading is false.
C16_MarkReadBestEffort ==
    LoadCompleted =>
        /\ loading = FALSE
        /\ \A d \in store : BetweenThePair(d) =>
               \E i \in 1..Len(messages) : messages[i].id = d.id
        /\ \A i \in 1..Len(messages) :
               (messages[i].receiverId = authUser /\ ~messages[i].read) =>
                   /\ MarkReadCalls(messages[i].id) = 1
                   /\ \A k \in 1..Len(calls) :
                          (calls[k].op = "markRead" /\ calls[k].id = messages[i].id) =>
                              calls[k].data.read = TRUE

\* C16 witness: a load has completed over two unread received messages; the
\* write for the first failed (it is still unread in the store), both are
\* listed and both writes were issued.
C16_Witness ==
    /\ LoadCompleted
    /\ Len(messages) = 2
    /\ \A i \in 1..2 : messages[i].receiverId = authUser /\ MarkReadCalls(messages[i].id) = 1
    /\ \E d \in store : d.id = messages[1].id /\ ~d.read
    /\ \E d \in store : d.id = messages[2].id /\ d.read

\* C17: provided every store call is answered, the conversation screen does
\* not stay busy: whenever loading is true it eventually becomes false,
\* whatever the outcome of the load (no user, failed profile read, failed
\* query, success), and whenever sending is true it eventually becomes false,
\* whatever the outcome of the send.
C17_ConversationReturns == (loading ~> ~loading) /\ (sending ~> ~sending)

\* C17 witness: the message query of the initial load has failed and the
\* screen is no longer loading.
C17_Witness ==
    /\ lastEvent = "loadMessages.catch"
    /\ ~loading
    /\ messages = <<>>

\* C18 as stated: provided every store read is answered, the dashboard does not
\* stay in its loading state forever: whenever isLoading is true, eventually
\* it is false or the access check has shown its alert and navigated back.
C18_DashboardReturns ==
    isLoading ~> (~isLoading \/ (accessOp = "denied" /\ adminAlerts = "Access Denied"))

\* C19 as stated: a load of the feedback and survey collections is started only
\* for a signed-in user who is superadmin by profile or by the fallback e-mail
\* address, and a user who is not is shown the alert and navigated back.
C19_ReadsOnlyForSuperAdmin ==
    [][/\ loadsStarted' # loadsStarted =>
              /\ adminUser.signedIn
              /\ IsSuperAdmin \/ adminUser.email = AdminEmail
       /\ (accessOp' = "denied" /\ accessOp # "denied") =>
              adminAlerts' = "Access Denied"
      ]_vars

\* C20: the listener is attached only by the mount effect, which runs once and
\* attaches it only when a user is signed in; the cleanup detaches it; once
\* detached it is never attached again, no snapshot is queued for it or
\* delivered, and no later change of the profile changes the badge's
\* unreadCount or hasNew.
C20_SubscriptionScoped ==
    [][/\ (listening' = "on" /\ listening # "on") =>
              /\ listening = "init"
              /\ authUser # NoUser
              /\ lastEvent' = "badge.useEffect"
       /\ listening # "init" => listening' # "init"
       /\ lastEvent' = "badge.unsubscribe" => listening' = "off" /\ snapshots' = <<>>
       /\ listening = "off" =>
              /\ listening' = "off"
              /\ snapshots' = <<>>
              /\ unreadCount' = unreadCount
              /\ hasNewNotifications' = hasNewNotifications
       /\ authUser = NoUser => listening' # "on"
      ]_vars

\* C20 witness: after the unmount the profile has received a notification that
\* the badge's count does not show.
C20_Witness ==
    /\ listening = "off"
    /\ lastEvent = "notify"
    /\ snapshots = <<>>
    /\ notificationData.unreadCount > unreadCount

IsLocalCopy(m) == \E n \in 1..sent : m.id = TempId(n)

\* C21: the copy a send appends carries a temporary id that is not the id of
\* the document the send created and that no stored document has; an edit or
\* a delete of such a copy issues its store call with that temporary id, so
\* the delete removes nothing from the store and the update finds no document.
C21_TemporaryIdNeverReconciled ==
    [][/\ lastEvent' = "handleSendMessage.then" =>
              LET copy == messages'[Len(messages')]
              IN /\ copy.id # sendOp.id
                 /\ \E d \in store' : d.id = sendOp.id /\ d.content = copy.content
                 /\ ~\E d \in store' : d.id = copy.id
       /\ \A i \in 1..Len(messages) :
              IsLocalCopy(messages[i]) => ~DocExists(messages[i].id)
       /\ (lastEvent' = "handleSaveEdit" /\ calls' # calls /\ IsLocalCopy(editingMessage)) =>
              /\ calls'[Len(calls')].id = editingMessage.id
              /\ ~DocExists(calls'[Len(calls')].id)
       /\ (lastEvent' = "Delete" /\ IsLocalCopy(alertConfig.target)) =>
              /\ calls'[Len(calls')].id = alertConfig.target.id
              /\ ~DocExists(calls'[Len(calls')].id)
       /\ (lastEvent' = "store.delete" /\ IsLocalCopy([NoMessage EXCEPT !.id = deleteOp.id])) =>
              store' = store
       /\ (lastEvent' = "store.update" /\ IsLocalCopy([NoMessage EXCEPT !.id = editOp.id])) =>
              store' = store /\ editOp'.pc = "failed"
      ]_vars

\* C21 witness: a just-sent message has been deleted from the screen; the
\* delete call carried its temporary id and the document the send created is
\* still stored.
C21_Witness ==
    /\ lastEvent = "Delete.then"
    /\ sent = 1
    /\ calls[Len(calls)].op = "delete"
    /\ calls[Len(calls)].id = TempId(1)
    /\ \E d \in store : d.id = 3 /\ d.content = <<"a">>

\* C28: at most one send is in flight: sending is true exactly while a send
\* handler is pending, and no step taken while sending is true issues a store
\* create call.
C28_OneSendInFlight ==
    [][/\ sending <=> sendOp.pc # "idle"
       /\ sending => AddCalls(calls') = AddCalls(calls)
       /\ AddCalls(calls') > AddCalls(calls) =>
              /\ AddCalls(calls') = AddCalls(calls) + 1
              /\ sending'
      ]_vars

\* C28 witness: the send button was pressed with a non-blank draft while the
\* earlier send's create call had been answered but not yet handled.
C28_Witness ==
    /\ lastEvent = "handleSendMessage"
    /\ sending
    /\ sendOp.pc = "added"
    /\ Trim(newMessage) # <<>>
    /\ AddCalls(calls) = 1

C24_UnreadCountNonNegative ==
    /\ notificationData.unreadCount >= 0
    /\ unreadCount >= 0
    /\ \A k \in 1..Len(snapshots) : snapshots[k].unreadCount >= 0

\* C24 witness: the badge still shows the two notifications it was told of (one
\* delivered after it mounted) and the seen write has just reset the stored
\* counter to 0.
C24_Witness ==
    /\ lastEvent = "store.seen"
    /\ pressOp.pc = "updated"
    /\ unreadCount = 2
    /\ notificationData.unreadCount = 0

\* C30: a notification delivered after the badge is pressed and before the
\* seen write is applied is not lost: the document the write leaves, which the
\* following snapshot carries to the badge, still has unreadCount > 0 or makes
\* hasNew true; and once the handler has finished after that snapshot the
\* badge still reports a count or the dot.
C30_LateNotificationKept ==
    [][/\ (/\ lastEvent = "notify"
           /\ listening = "on"
           /\ pressOp.pc = "updating"
           /\ notificationData.unreadCount > 0
           /\ lastEvent' = "store.seen"
           /\ pressOp'.pc = "updated") =>
              (notificationData'.unreadCount > 0 \/ HasNew(notificationData'))
       /\ (/\ lastEvent' = "handlePress.then"
           /\ listening = "on"
           /\ snapshots = <<>>
           /\ notificationData.lastSeenTime # 0
           /\ notificationData.lastNotificationTime > notificationData.lastSeenTime) =>
              (unreadCount' > 0 \/ hasNewNotifications')
      ]_vars

Occurrences(sv, f) ==
    Cardinality({p \in (1..Len(sv)) \X (1..2) :
                    p[2] <= Len(sv[p[1]].features) /\ sv[p[1]].features[p[2]] = f})

\* C23: the feature-usage histogram maps each feature to the total number of
\* its occurrences in the 'features' answers of all surveys; a survey without
\* a 'features' answer contributes nothing, and a feature no survey mentions
\* has no entry.
C23_FeatureUsage ==
    analytics.computed =>
        /\ DOMAIN analytics.featureUsage
               = {f \in {"chat", "quiz"} : Occurrences(surveys, f) > 0}
        /\ \A f \in DOMAIN analytics.featureUsage :
               analytics.featureUsage[f] = Occurrences(surveys, f)

\* C23 witness: analytics have been computed over three surveys: one naming
\* chat and quiz, one without a 'features' answer, one naming chat twice.
C23_Witness ==
    /\ analytics.computed
    /\ surveys = <<Survey(<<"chat", "quiz">>, ""), Survey(<<>>, ""),
                   Survey(<<"chat", "chat">>, "")>>
    /\ analytics.featureUsage = ("chat" :> 3) @@ ("quiz" :> 1)

(***************************************************************************)
(* Properties of a session with a change of partner.                       *)
(***************************************************************************)
SameMessage(m, n) ==
    /\ m.senderId = n.senderId
    /\ m.receiverId = n.receiverId
    /\ m.content = n.content
    /\ m.timestamp = n.timestamp

\* C22: the stored read flag of a message makes at most one transition: a
\* document is created with read = false; read never goes from true back to
\* false, whatever sends, overlapping loads, edits and deletes interleave; and
\* it goes from false to true only by the mark-as-read write of a load run
\* by the message's receiver.
C22_OneReadTransition ==
    [][\A n \in store' :
          /\ (~\E d \in store : d.id = n.id) => ~n.read
          /\ \A d \in store :
                d.id = n.id =>
                    /\ d.read => n.read
                    /\ (~d.read /\ n.read) =>
                          \/ /\ lastEvent' = "store.markRead"
                             /\ \/ /\ loadOp.pc = "marking" /\ loadOp'.pc = "loop"
                                   /\ loadOp.mark = d.id
                                   /\ loadOp.userId = d.receiverId
                                \/ /\ staleOp.pc = "marking" /\ staleOp'.pc = "loop"
                                   /\ staleOp.mark = d.id
                                   /\ staleOp.userId = d.receiverId
                          \/ /\ lastEvent' = "peer.markRead"
                             /\ d.receiverId # authUser
      ]_vars

\* C22 witness: while two loads are pending, the superseded one has had its
\* write applied to the message received from the first partner; the message
\* received from the second partner is still unread.
C22_Witness ==
    /\ lastEvent = "store.markRead"
    /\ loadOp.pc \notin {"done", "start"}
    /\ staleOp.pc = "loop"
    /\ \E d \in store : d.id = 2 /\ d.read
    /\ \E d \in store : d.id = 3 /\ ~d.read

\* C25: when otherUserId changes the loads of both partners may complete in
\* either order, and once both have completed and set the list, the list
\* holds only messages between the signed-in user and the current
\* otherUserId.
C25_StaleLoadNeverOverwrites ==
    (/\ otherUserId # Itinerary[1]
     /\ loadOp.pc = "done"
     /\ staleOp.pc = "done"
     /\ lastEvent = "loadMessages.loop"
     /\ \E d \in store : d.senderId = otherUserId /\ MarkReadCalls(d.id) > 0)
        => \A i \in 1..Len(messages) : BetweenThePair(messages[i])

\* C26: a message appended by a successful send stays in the list: when a
\* load for the current partner completes, every locally appended message to
\* that partner is still listed (as the local copy or as its stored document).
C26_SentMessageSurvivesLoad ==
    [][(/\ loadOp.pc = "loop"
        /\ loadOp'.pc = "done"
        /\ loadOp.other = otherUserId)
          => \A i \in 1..Len(messages) :
                 (IsLocalCopy(messages[i]) /\ messages[i].receiverId = otherUserId) =>
                     \E j \in 1..Len(messages') : SameMessage(messages'[j], messages[i])
      ]_vars

\* C27: while the partner has not changed, after any sequence of loads and
\* sends the list is ordered non-decreasing by timestamp, also when a fetched
\* message carries a timestamp later than the one the local clock gives a
\* message sent afterwards.
C27_ListOrdered ==
    (otherUserId = Itinerary[1] /\ staleOp.pc = "done") =>
        \A i, j \in 1..Len(messages) :
            i < j => messages[i].timestamp <= messages[j].timestamp

====
